---- MODULE Spec2Model ----
(***************************************************************************)
(* A model of treebuild: the parser of `cargo tree --prefix depth` output  *)
(* (src/src/dependency_tree.rs) and the radial layout of the tree          *)
(* (src/src/drawing.rs).                                                   *)
(*                                                                         *)
(* Strings are sequences of one-character strings, so that the parsing of  *)
(* a line (its depth prefix, its package id) is computed as the code       *)
(* computes it.                                                            *)
(***************************************************************************)
EXTENDS Integers, Sequences, FiniteSets, TLC

VARIABLES
    pc,          \* position in DependencyTree::new and after it
    lines,       \* the lines of `output` the loop has consumed so far
    map,         \* HashMap<String, TreeNode> being built
    stack,       \* Vec<String>: the open ancestors
    roots,       \* Vec<String>: the root candidates
    tree,        \* the DependencyTree returned (NoTree before that)
    cur,         \* the Dependency view the caller holds (NoView if none)
    iter,        \* the DependencyIterator the caller holds (NoIter if none)
    args,        \* the arguments of a call of get_satellites or draw_tree
    returned,    \* whether that call has returned
    sats,        \* the angles of the satellites get_satellites returns
    crate_draws, \* Vec<DrawCrate> returned by draw_tree
    line_draws   \* Vec<DrawLine> returned by draw_tree

parser_vars == <<pc, lines, map, stack, roots, tree, cur, iter>>

layout_vars == <<args, returned, sats, crate_draws, line_draws>>

vars == <<pc, lines, map, stack, roots, tree, cur, iter,
          args, returned, sats, crate_draws, line_draws>>

(***************************************************************************)
(* Bounds of the model.                                                    *)
(***************************************************************************)
MaxLines == 4
MaxDepth == 2

(***************************************************************************)
(* Characters and strings.                                                 *)
(***************************************************************************)
Digits == <<"0", "1", "2", "3", "4", "5", "6", "7", "8", "9">>

IsAsciiDigit(c) == \E i \in 1..Len(Digits) : Digits[i] = c

DigitValue(c) == (CHOOSE i \in 1..Len(Digits) : Digits[i] = c) - 1

\* str::parse::<usize> of a run of digits
RECURSIVE ParseUsize(_)
ParseUsize(s) ==
    IF s = <<>> THEN 0
    ELSE ParseUsize(SubSeq(s, 1, Len(s) - 1)) * 10 + DigitValue(s[Len(s)])

\* usize::to_string, the inverse used to write the inputs
RECURSIVE FormatUsize(_)
FormatUsize(n) ==
    IF n < 10 THEN <<Digits[n + 1]>>
    ELSE FormatUsize(n \div 10) \o <<Digits[(n % 10) + 1]>>

\* line.find(|c| !c.is_ascii_digit()): 1-based index, 0 for None
FindNonDigit(s) ==
    IF \E i \in 1..Len(s) : ~IsAsciiDigit(s[i])
    THEN CHOOSE i \in 1..Len(s) :
            /\ ~IsAsciiDigit(s[i])
            /\ \A j \in 1..(i - 1) : IsAsciiDigit(s[j])
    ELSE 0

\* let (depth, line) = line.split_at(start); depth.parse::<usize>()
LineDepth(line) == ParseUsize(SubSeq(line, 1, FindNonDigit(line) - 1))

LineRest(line) == SubSeq(line, FindNonDigit(line), Len(line))

\* pkg_id.find(" (").unwrap_or(pkg_id.len()): the number of characters kept
FindParenStop(s) ==
    IF \E i \in 1..(Len(s) - 1) : s[i] = " " /\ s[i + 1] = "("
    THEN (CHOOSE i \in 1..(Len(s) - 1) :
            /\ s[i] = " " /\ s[i + 1] = "("
            /\ \A j \in 1..(i - 1) : ~(s[j] = " " /\ s[j + 1] = "(")) - 1
    ELSE Len(s)

\* str::trim
RECURSIVE Trim(_)
Trim(s) ==
    IF s = <<>> THEN s
    ELSE IF s[1] = " " THEN Trim(Tail(s))
    ELSE IF s[Len(s)] = " " THEN Trim(SubSeq(s, 1, Len(s) - 1))
    ELSE s

\* the index of the last " " of s, 0 if there is none
LastSpace(s) ==
    IF \E i \in 1..Len(s) : s[i] = " "
    THEN CHOOSE i \in 1..Len(s) :
            s[i] = " " /\ \A j \in (i + 1)..Len(s) : s[j] # " "
    ELSE 0

\* s.rsplitn(2, " ").collect(): <<after the last space, before it>>
RSplit2(s) ==
    IF LastSpace(s) = 0 THEN <<s>>
    ELSE <<SubSeq(s, LastSpace(s) + 1, Len(s)), SubSeq(s, 1, LastSpace(s) - 1)>>

\* str::replace("_", "-")
ReplaceUnderscore(s) == [i \in 1..Len(s) |-> IF s[i] = "_" THEN "-" ELSE s[i]]

StartsWithV(s) == Len(s) >= 1 /\ s[1] = "v"

crate_name_from_package_id(pkg_id) ==
    LET split == RSplit2(Trim(SubSeq(pkg_id, 1, FindParenStop(pkg_id))))
        start == IF StartsWithV(split[1]) THEN 1 ELSE 0
    IN  ReplaceUnderscore(split[2]) \o <<" ">>
            \o SubSeq(split[1], start + 1, Len(split[1]))

(***************************************************************************)
(* The input: the lines of `cargo tree --prefix depth`, each the depth     *)
(* followed at once by the package id, a blank line between two projects   *)
(* of a workspace.  Two of the package ids normalise to the same name.     *)
(***************************************************************************)
PkgIds ==
    { <<"a", "_", "b", " ", "v", "1", " ", "(", "/", "p", ")">>,
      <<" ", "a", "-", "b", " ", "1">>,
      <<"c", " ", "v", "2">>,
      <<"d", " ", "1">> }

BlankLine == <<>>

InputLines ==
    {BlankLine} \cup {FormatUsize(d) \o p : d \in 0..MaxDepth, p \in PkgIds}

\* the depth and the crate name the loop computes for each line of the input
DepthOf == [l \in InputLines \ {BlankLine} |-> LineDepth(l)]

DepOf == [l \in InputLines \ {BlankLine} |-> crate_name_from_package_id(LineRest(l))]

Workspace == <<"w", "o", "r", "k", "s", "p", "a", "c", "e">>

(***************************************************************************)
(* DependencyTree::new, one step per line of the output.                   *)
(***************************************************************************)
EmptyMap == [k \in {} |-> k]

NoTree == [root |-> <<>>, nodes |-> EmptyMap]

NoView == <<>>

\* what indexing the node mapping with a missing key leaves the caller with
PanicView == <<"!">>

NoIter == [node |-> NoView, iter |-> <<>>, index |-> 0]

NoArgs == [fn |-> "none"]

Range(s) == {s[i] : i \in 1..Len(s)}

\* a faulty variant: the pops forgotten
TruncateNever(s, n) == s

\* Vec::truncate(n) and the loop `while depth < stack.len() { stack.pop(); }`
Truncate(s, n) == IF Len(s) > n THEN SubSeq(s, 1, n) ELSE s

\* a faulty variant: the line compared with its parent only
StackTopIs(s, dep) == s # <<>> /\ s[Len(s)] = dep

\* stack.contains(&dep)
StackContains(s, dep) == \E i \in 1..Len(s) : s[i] = dep

\* map.entry(dep).or_insert_with(|| TreeNode { name: dep, children: {} })
OrInsert(m, dep) ==
    [k \in DOMAIN m \cup {dep} |->
        IF k \in DOMAIN m THEN m[k] ELSE [name |-> dep, children |-> {}]]

\* map.entry(parent).and_modify(|parent| parent.children.insert(dep))
AddChild(m, parent, dep) ==
    [k \in DOMAIN m |->
        IF k = parent
        THEN [m[k] EXCEPT !.children = m[k].children \cup {dep}]
        ELSE m[k]]

\* stack.truncate(1); stack.pop().map(|root| roots.push(root));
PushOpenRoot(st, rs) == IF st = <<>> THEN rs ELSE Append(rs, st[1])

Init ==
    /\ pc = "start"
    /\ lines = <<>>
    /\ map = EmptyMap
    /\ stack = <<>>
    /\ roots = <<>>
    /\ tree = NoTree
    /\ cur = NoView
    /\ iter = NoIter
    /\ args = NoArgs
    /\ returned = FALSE
    /\ sats = <<>>
    /\ crate_draws = <<>>
    /\ line_draws = <<>>

\* `cargo tree` exited with a failure status: Err((code, stderr))
CommandFails ==
    /\ pc = "start"
    /\ pc' = "err"
    /\ UNCHANGED <<lines, map, stack, roots, tree, cur, iter>>
    /\ UNCHANGED layout_vars

CommandSucceeds ==
    /\ pc = "start"
    /\ pc' = "parsing"
    /\ UNCHANGED <<lines, map, stack, roots, tree, cur, iter>>
    /\ UNCHANGED layout_vars

Consume(line) ==
    /\ pc = "parsing"
    /\ Len(lines) < MaxLines
    /\ lines' = Append(lines, line)
    /\ UNCHANGED <<pc, tree, cur, iter>>
    /\ UNCHANGED layout_vars

\* an empty line: the projects separator
Separator(line) ==
    /\ Consume(line)
    /\ Len(line) = 0
    /\ roots' = PushOpenRoot(stack, roots)
    /\ stack' = <<>>
    /\ UNCHANGED map

\* depth > stack.len(): continue.  Every depth beyond the stack takes this
\* same branch before anything else is read, so the inputs offer one such
\* depth, the nearest.
SkipOrphan(line) ==
    /\ Consume(line)
    /\ Len(line) # 0
    /\ DepthOf[line] > Len(stack)
    /\ DepthOf[line] = Len(stack) + 1
    /\ UNCHANGED <<map, stack, roots>>

\* a faulty variant: the known root opened again as the current project
RecordKnownRootOpens(line) ==
    LET dep == DepOf[line]
    IN  /\ Consume(line)
        /\ Len(line) # 0
        /\ DepthOf[line] <= Len(stack)
        /\ stack = <<>> /\ dep \in DOMAIN map
        /\ roots' = Append(roots, dep)
        /\ stack' = <<dep>>
        /\ UNCHANGED map

\* stack.is_empty() && map.contains_key(&dep): the project is already in the map
RecordKnownRoot(line) ==
    LET dep == DepOf[line]
    IN  /\ Consume(line)
        /\ Len(line) # 0
        /\ DepthOf[line] <= Len(stack)
        /\ stack = <<>> /\ dep \in DOMAIN map
        /\ roots' = Append(roots, dep)
        /\ UNCHANGED <<map, stack>>

\* stack.contains(&dep) after the pops: avoid a cycle
SkipCycle(line) ==
    LET dep == DepOf[line]
        popped == Truncate(stack, DepthOf[line])
    IN  /\ Consume(line)
        /\ Len(line) # 0
        /\ DepthOf[line] <= Len(stack)
        /\ ~(stack = <<>> /\ dep \in DOMAIN map)
        /\ StackContains(popped, dep)
        /\ stack' = popped
        /\ UNCHANGED <<map, roots>>

\* the node is entered, made a child of the top of the stack, and pushed
AddDependency(line) ==
    LET dep == DepOf[line]
        popped == Truncate(stack, DepthOf[line])
        entered == OrInsert(map, dep)
    IN  /\ Consume(line)
        /\ Len(line) # 0
        /\ DepthOf[line] <= Len(stack)
        /\ ~(stack = <<>> /\ dep \in DOMAIN map)
        /\ ~StackContains(popped, dep)
        /\ map' = IF popped = <<>> THEN entered
                  ELSE AddChild(entered, popped[Len(popped)], dep)
        /\ stack' = Append(popped, dep)
        /\ UNCHANGED roots

\* after the loop: the last open project is a root candidate too
Flush ==
    /\ pc = "parsing"
    /\ pc' = "flushed"
    /\ roots' = PushOpenRoot(stack, roots)
    /\ stack' = <<>>
    /\ UNCHANGED <<lines, map, tree, cur, iter>>
    /\ UNCHANGED layout_vars

\* a faulty variant: the assertion dropped
AssertNothing(rs) == TRUE

\* assert!(!roots.is_empty())
AssertRoots(rs) == rs # <<>>

\* the root: the only candidate, or a "workspace" node over all of them
\* (roots.pop().unwrap() of no candidate at all would panic)
ResolvedRoot(rs) ==
    IF Len(rs) > 1 THEN Workspace
    ELSE IF rs = <<>> THEN PanicView
    ELSE rs[Len(rs)]

\* a faulty variant: the "workspace" node never inserted
ResolvedMapNoWorkspace(m, rs) == m

\* a faulty variant: the first root candidate left out of the "workspace" node
ResolvedMapDropsFirst(m, rs) ==
    IF Len(rs) > 1
    THEN [k \in DOMAIN m \cup {Workspace} |->
            IF k = Workspace
            THEN [name |-> Workspace, children |-> Range(Tail(rs))]
            ELSE m[k]]
    ELSE m

ResolvedMap(m, rs) ==
    IF Len(rs) > 1
    THEN [k \in DOMAIN m \cup {Workspace} |->
            IF k = Workspace
            THEN [name |-> Workspace, children |-> Range(rs)]
            ELSE m[k]]
    ELSE m

Resolve ==
    /\ pc = "flushed"
    /\ IF AssertRoots(roots)
       THEN /\ pc' = "done"
            /\ map' = ResolvedMap(map, roots)
            /\ tree' = [root |-> ResolvedRoot(roots), nodes |-> map']
            /\ roots' = <<>>
       ELSE /\ pc' = "failed"
            /\ UNCHANGED <<map, tree, roots>>
    /\ UNCHANGED <<lines, stack, cur, iter>>
    /\ UNCHANGED layout_vars

(***************************************************************************)
(* The views of the tree: root(), into_iter() and the iterator's next().   *)
(***************************************************************************)
\* &map[key]: the node of that name, a panic when the key is missing
IndexNode(nodes, key) == IF key \in DOMAIN nodes THEN nodes[key].name ELSE PanicView

\* hash_set::Iter: the children in an order the hasher decides
IterOrders(S) ==
    {s \in [1..Cardinality(S) -> S] : \A i, j \in 1..Cardinality(S) : s[i] = s[j] => i = j}

Root ==
    /\ pc = "done"
    /\ cur = NoView /\ iter = NoIter
    /\ cur' = IndexNode(tree.nodes, tree.root)
    /\ UNCHANGED <<pc, lines, map, stack, roots, tree, iter>>
    /\ UNCHANGED layout_vars

IntoIter ==
    /\ pc = "done"
    /\ cur \notin {NoView, PanicView}
    /\ \E order \in IterOrders(tree.nodes[cur].children) :
            iter' = [node |-> cur, iter |-> order, index |-> 0]
    /\ cur' = NoView
    /\ UNCHANGED <<pc, lines, map, stack, roots, tree>>
    /\ UNCHANGED layout_vars

IterNext ==
    /\ pc = "done"
    /\ iter.node # NoView
    /\ iter.iter # <<>>
    /\ cur' = IndexNode(tree.nodes, Head(iter.iter))
    /\ iter' = [iter EXCEPT !.iter = Tail(iter.iter), !.index = iter.index + 1]
    /\ UNCHANGED <<pc, lines, map, stack, roots, tree>>
    /\ UNCHANGED layout_vars

Next ==
    \/ CommandFails
    \/ CommandSucceeds
    \/ \E line \in InputLines :
        \/ Separator(line)
        \/ SkipOrphan(line)
        \/ RecordKnownRoot(line)
        \/ SkipCycle(line)
        \/ AddDependency(line)
    \/ Flush
    \/ Resolve
    \/ Root
    \/ IntoIter
    \/ IterNext

Spec == Init /\ [][Next]_vars

(***************************************************************************)
(* What the properties of the parser are stated with.                      *)
(***************************************************************************)
IsData(l) == l # BlankLine

\* the nodes reachable from the nodes of S by one to k child edges
RECURSIVE ReachWithin(_, _, _)
ReachWithin(nodes, S, k) ==
    IF k = 0 THEN {}
    ELSE LET step == UNION {nodes[n].children : n \in S \cap DOMAIN nodes}
         IN  step \cup ReachWithin(nodes, step, k - 1)

Descendants(nodes, n) == ReachWithin(nodes, {n}, Cardinality(DOMAIN nodes))

Edges(nodes) == UNION {{<<n, c>> : c \in nodes[n].children} : n \in DOMAIN nodes}

\* the line consumed by the step, when the step consumes one
Consumed == lines'[Len(lines')]

ConsumesData ==
    /\ pc = "parsing"
    /\ Len(lines') = Len(lines) + 1
    /\ IsData(Consumed)

\* the positions of the depth-0 lines of an input, and their identities in order
RootPositions(ls) == {i \in 1..Len(ls) : IsData(ls[i]) /\ DepthOf[ls[i]] = 0}

RECURSIVE RootsInOrder(_)
RootsInOrder(ls) ==
    IF ls = <<>> THEN <<>>
    ELSE LET l == ls[Len(ls)]
             before == RootsInOrder(SubSeq(ls, 1, Len(ls) - 1))
         IN  IF IsData(l) /\ DepthOf[l] = 0 THEN Append(before, DepOf[l]) ELSE before

\* N >= 2 project trees, a blank line between each two, their roots distinct
MultiRootInput(ls) ==
    /\ Cardinality(RootPositions(ls)) >= 2
    /\ 1 \in RootPositions(ls)
    /\ \A i \in RootPositions(ls) : i > 1 => ls[i - 1] = BlankLine
    /\ \A i \in 1..Len(ls) : ls[i] = BlankLine => (i + 1) \in RootPositions(ls)
    /\ \A i, j \in RootPositions(ls) : DepOf[ls[i]] = DepOf[ls[j]] => i = j

\* the nearest preceding line one level up, 0 if there is none
ParentPosition(ls, i) ==
    LET up == {j \in 1..(i - 1) : IsData(ls[j]) /\ DepthOf[ls[j]] = DepthOf[ls[i]] - 1}
    IN  IF up = {} THEN 0 ELSE CHOOSE j \in up : \A k \in up : k <= j

RECURSIVE AncestorPositions(_, _)
AncestorPositions(ls, i) ==
    IF ParentPosition(ls, i) = 0 THEN {}
    ELSE {ParentPosition(ls, i)} \cup AncestorPositions(ls, ParentPosition(ls, i))

\* one tree, well nested, no identity below itself
SingleRootInput(ls) ==
    /\ Len(ls) >= 1
    /\ \A i \in 1..Len(ls) : IsData(ls[i])
    /\ RootPositions(ls) = {1}
    /\ \A i \in 2..Len(ls) : DepthOf[ls[i]] <= DepthOf[ls[i - 1]] + 1
    /\ \A i \in 1..Len(ls) : \A j \in AncestorPositions(ls, i) : DepOf[ls[j]] # DepOf[ls[i]]

ImpliedEdges(ls) ==
    {<<DepOf[ls[ParentPosition(ls, i)]], DepOf[ls[i]]>> : i \in 2..Len(ls)}

(***************************************************************************)
(* C1: in a returned tree no node is reachable from itself by child edges, *)
(* for any sequence of input lines.                                        *)
(***************************************************************************)
C1_Acyclic ==
    pc = "done" => \A n \in DOMAIN tree.nodes : n \notin Descendants(tree.nodes, n)

(***************************************************************************)
(* C2: the graph is closed: the root and every child named by a node are   *)
(* keys of the mapping, so that root() and the child iterator never index  *)
(* a missing key.                                                          *)
(***************************************************************************)
C2_Closed ==
    /\ \A k \in DOMAIN map : map[k].children \subseteq DOMAIN map
    /\ pc = "done" =>
        /\ tree.root \in DOMAIN tree.nodes
        /\ \A k \in DOMAIN tree.nodes : tree.nodes[k].children \subseteq DOMAIN tree.nodes
        /\ cur # PanicView

\* a workspace tree, one of its roots recorded by the already-in-map shortcut,
\* whose children the iterator has walked through
C2_Witness ==
    /\ pc = "done"
    /\ tree.root = Workspace
    /\ Len(RootsInOrder(lines)) > Cardinality(DOMAIN tree.nodes \ {Workspace})
    /\ iter.node = Workspace
    /\ iter.index = Cardinality(tree.nodes[Workspace].children)
    /\ cur \in tree.nodes[Workspace].children

(***************************************************************************)
(* C3: a data line of depth d <= stack length whose identity is among the  *)
(* first d entries of the stack changes neither the mapping nor the root   *)
(* candidates, leaves the stack at length d with nothing pushed, and the   *)
(* parsing goes on without an error.                                       *)
(***************************************************************************)
C3_CycleGuard ==
    [][(/\ ConsumesData
        /\ DepthOf[Consumed] <= Len(stack)
        /\ \E i \in 1..DepthOf[Consumed] : stack[i] = DepOf[Consumed])
       => /\ map' = map
          /\ roots' = roots
          /\ stack' = SubSeq(stack, 1, DepthOf[Consumed])
          /\ Len(stack') <= Len(stack)
          /\ pc' = "parsing"]_vars

\* the third line names the root again, below its child: it was skipped
C3_Witness ==
    /\ pc = "parsing"
    /\ Len(lines) = 3
    /\ \A i \in 1..3 : IsData(lines[i]) /\ DepthOf[lines[i]] = i - 1
    /\ DepOf[lines[3]] = DepOf[lines[1]]
    /\ DepOf[lines[2]] # DepOf[lines[1]]
    /\ stack = <<DepOf[lines[1]], DepOf[lines[2]]>>
    /\ DOMAIN map = {DepOf[lines[1]], DepOf[lines[2]]}

C5_SingleRootTree ==
    (pc = "done" /\ SingleRootInput(lines))
    => /\ tree.root = DepOf[lines[1]]
       /\ DOMAIN tree.nodes = {DepOf[lines[i]] : i \in 1..Len(lines)}
       /\ Edges(tree.nodes) = ImpliedEdges(lines)

\* a root, a child, a grandchild, and the child named again in its other spelling
C5_Witness ==
    /\ pc = "done"
    /\ SingleRootInput(lines)
    /\ Len(lines) = 4
    /\ \E i \in 1..Len(lines) : DepthOf[lines[i]] = 2
    /\ Cardinality(DOMAIN tree.nodes) = 3
    /\ Cardinality(Edges(tree.nodes)) = 2

(***************************************************************************)
(* C9: with no root candidate after the final flush the construction       *)
(* fails and returns no tree; a returned tree always comes from at least   *)
(* one root candidate, which is its root or a child of its root.           *)
(***************************************************************************)
C9_NoRootlessTree ==
    [][/\ (pc = "flushed" /\ roots = <<>>) => (pc' = "failed" /\ tree' = NoTree)
       /\ (pc' = "done" /\ pc # "done")
            => /\ pc = "flushed"
               /\ roots # <<>>
               /\ \A r \in Range(roots) :
                    tree'.root = r \/ r \in tree'.nodes[tree'.root].children
       /\ pc = "failed" => (pc' = "failed" /\ tree' = NoTree)]_vars

\* every data line of a non-empty input was an orphan
C9_Witness ==
    /\ pc = "failed"
    /\ tree = NoTree
    /\ \E i \in 1..Len(lines) : IsData(lines[i])

(***************************************************************************)
(* C10: a depth-0 line read with the stack empty whose identity is already *)
(* in the mapping is appended once to the root candidates, the mapping and *)
(* the stack unchanged; a deeper line read with the stack empty changes    *)
(* nothing; the same root twice, a blank line between, is one node and two *)
(* root candidates.                                                        *)
(***************************************************************************)
C10_KnownRootShortcut ==
    /\ [][/\ (/\ ConsumesData
              /\ DepthOf[Consumed] = 0
              /\ stack = <<>>
              /\ DepOf[Consumed] \in DOMAIN map)
             => /\ roots' = Append(roots, DepOf[Consumed])
                /\ map' = map
                /\ stack' = stack
          /\ (/\ ConsumesData
              /\ DepthOf[Consumed] > 0
              /\ stack = <<>>)
             => /\ roots' = roots
                /\ map' = map
                /\ stack' = stack]_vars
    /\ []((/\ pc = "flushed"
           /\ Len(lines) = 3
           /\ IsData(lines[1]) /\ DepthOf[lines[1]] = 0
           /\ lines[2] = BlankLine
           /\ lines[3] = lines[1])
          => /\ roots = <<DepOf[lines[1]], DepOf[lines[1]]>>
             /\ DOMAIN map = {DepOf[lines[1]]})

\* the same root twice, then a line below it: two candidates, one node
C10_Witness ==
    /\ pc = "flushed"
    /\ Len(lines) = 4
    /\ IsData(lines[1]) /\ DepthOf[lines[1]] = 0
    /\ lines[2] = BlankLine
    /\ lines[3] = lines[1]
    /\ IsData(lines[4]) /\ DepthOf[lines[4]] = 1
    /\ roots = <<DepOf[lines[1]], DepOf[lines[1]]>>
    /\ DOMAIN map = {DepOf[lines[1]]}

(***************************************************************************)
(* The layout (drawing.rs).  Angles are exact rationals counted in quarter *)
(* turns (PI / 2), where the code computes in f32.  A point or a radius,   *)
(* which the code gets with cos, sin and sqrt, is kept as the term it is   *)
(* computed from: a centre is the list of hops from the centre of the root *)
(* call, a radius the list of angular steps it was narrowed by.            *)
(***************************************************************************)
MaxAmount == 5
MaxNodes == 4
TransitionSteps == 2

Abs(n) == IF n < 0 THEN -n ELSE n

RECURSIVE GCD(_, _)
GCD(a, b) == IF b = 0 THEN a ELSE GCD(b, a % b)

Rat(n, d) ==
    LET g == GCD(Abs(n), d)
    IN  [num |-> n \div g, den |-> d \div g]

RatAdd(a, b) == Rat(a.num * b.den + b.num * a.den, a.den * b.den)

RatMulInt(a, k) == Rat(a.num * k, a.den)

RatDivInt(a, k) == Rat(a.num, a.den * k)

\* a faulty variant: the half rounded down
HalfFloor(idx) == idx \div 2

\* .map(|idx| ((idx as f32) / 2.0).ceil())
HalfCeil(idx) == (idx + 1) \div 2

\* .zip([1, -1].iter().cycle())
SignCycle == <<1, -1>>

SignAt(idx) == SignCycle[(idx % Len(SignCycle)) + 1]

\* .map(|(idx, &sign)| idx * (sign as f32))
AlternatingIdx(idx) == HalfCeil(idx) * SignAt(idx)

\* the angles of the satellites, in the order of the returned Vec
get_satellites(amount, phase, sky) ==
    [i \in 1..amount |->
        RatAdd(phase, RatMulInt(RatDivInt(sky, amount), AlternatingIdx(i - 1)))]

\* let diff_angle = sky / (amount as f32): what the radius of the satellites
\* is computed from (infinite for no satellite at all)
DiffAngle(amount, sky) == IF amount = 0 THEN [num |-> 1, den |-> 0] ELSE RatDivInt(sky, amount)

QuarterTurn == Rat(1, 1)

ThreeQuarterTurns == Rat(3, 1)

\* the colour of an active crate, and of a completed one
ActiveColor == <<152, 251, 152>>

LineColor == <<255, 255, 255>>

Min(a, b) == IF a < b THEN a ELSE b

Max(a, b) == IF a > b THEN a ELSE b

\* (x as f32 * transition) as u8, transition = t / TransitionSteps
ScaleToU8(x, t) == Max(0, Min(255, (x * t) \div TransitionSteps))

\* u8::saturating_add
SaturatingAdd(a, b) == Min(255, a + b)

BlendChannel(c, a, t) ==
    LET base == Min(c, a)
        diff == Max(c, a) - base
    IN  SaturatingAdd(base, ScaleToU8(diff, t))

CrateColor(name, color, completed, active, t) ==
    IF name \in active
    THEN <<BlendChannel(color[1], ActiveColor[1], t),
           BlendChannel(color[2], ActiveColor[2], t),
           BlendChannel(color[3], ActiveColor[3], t)>>
    ELSE IF name \in completed THEN ActiveColor
    ELSE color

\* child.children.len() < 5
FewChildren(t, n) == Len(t[n].children) < 5

\* crate_draws.extend(child_crate_draws)
ExtendCrates(crates, child_crates) == crates \o child_crates

\* a faulty variant: the lines of the child's own subtree dropped
PushLineOnly(ls, line, child_lines) == Append(ls, line)

\* line_draws.push(DrawLine { .. }); line_draws.extend(child_line_draws)
PushAndExtendLines(ls, line, child_lines) == Append(ls, line) \o child_lines

RECURSIVE draw_tree(_, _, _, _, _, _, _, _, _, _, _)
RECURSIVE DrawChildren(_, _, _, _, _, _, _, _, _, _, _)

\* the for_each over sats zipped with the children, up to the k-th child
DrawChildren(t, n, k, center, radius, new_radius, angles, phase_accum, completed, active, transition) ==
    IF k = 0 THEN [crates |-> <<>>, lines |-> <<>>]
    ELSE
        LET before == DrawChildren(t, n, k - 1, center, radius, new_radius, angles,
                                   phase_accum, completed, active, transition)
            child == t[n].children[k]
            point_phase == angles[k]
            child_center == Append(center, [angle |-> point_phase,
                                            pushed |-> ~FewChildren(t, child)])
            child_sky == IF FewChildren(t, child) THEN QuarterTurn ELSE ThreeQuarterTurns
            sub == draw_tree(t, child, child_center, new_radius, point_phase, child_sky,
                             phase_accum, t[child].color, completed, active, transition)
            line == [p1 |-> [from |-> center, angle |-> point_phase, radius |-> radius],
                     p2 |-> [from |-> child_center, angle |-> point_phase,
                             radius |-> new_radius],
                     color |-> LineColor]
        IN  [crates |-> ExtendCrates(before.crates, sub.crates),
             lines |-> PushAndExtendLines(before.lines, line, sub.lines)]

draw_tree(t, n, center, radius, phase, sky, phase_accum, color, completed, active, transition) ==
    LET self == [center |-> center,
                 radius |-> radius,
                 color |-> CrateColor(t[n].name, color, completed, active, transition),
                 name |-> t[n].name,
                 tree |-> n]
        child_count == Len(t[n].children)
        new_radius == Append(radius, DiffAngle(child_count, sky))
        angles == get_satellites(child_count, RatAdd(phase, phase_accum), sky)
        below == DrawChildren(t, n, Min(Len(angles), child_count), center, radius,
                              new_radius, angles, phase_accum, completed, active,
                              transition)
    IN  [crates |-> <<self>> \o below.crates, lines |-> below.lines]

(***************************************************************************)
(* The inputs of the layout.                                               *)
(***************************************************************************)
Phases == {Rat(k, 2) : k \in -2..2}

Skies == {Rat(k, 1) : k \in 1..4}

NodeNames == <<"n1", "n2", "n3", "n4", "n5", "n6", "n7", "n8">>

NodeColors ==
    <<<<255, 0, 160>>, <<0, 255, 0>>, <<152, 251, 152>>, <<40, 40, 40>>,
      <<255, 255, 255>>, <<0, 0, 0>>, <<153, 250, 151>>, <<7, 7, 7>>>>

\* the trees of n nodes: node i hangs below a node before it, the children
\* of a node in the order of their numbers
ChildrenOf(n, parent, i) ==
    LET S == {j \in 2..n : parent[j] = i}
        RECURSIVE Sorted(_)
        Sorted(T) ==
            IF T = {} THEN <<>>
            ELSE LET m == CHOOSE x \in T : \A y \in T : x <= y
                 IN  <<m>> \o Sorted(T \ {m})
    IN  Sorted(S)

TreeNodes(n, parent) ==
    [i \in 1..n |->
        [name |-> NodeNames[i], children |-> ChildrenOf(n, parent, i),
         color |-> NodeColors[i]]]

Trees ==
    UNION {{TreeNodes(n, parent) :
                parent \in {f \in [2..n -> 1..n] : \A i \in 2..n : f[i] < i}} :
           n \in 1..MaxNodes}

Channels == {0, 151, 152, 153, 250, 251, 252, 255}

IdleParser ==
    /\ pc = "idle"
    /\ lines = <<>>
    /\ map = EmptyMap
    /\ stack = <<>>
    /\ roots = <<>>
    /\ tree = NoTree
    /\ cur = NoView
    /\ iter = NoIter

NothingReturned ==
    /\ returned = FALSE
    /\ sats = <<>>
    /\ crate_draws = <<>>
    /\ line_draws = <<>>

\* a call of get_satellites
SatellitesInit ==
    /\ IdleParser
    /\ NothingReturned
    /\ \E amount \in 0..MaxAmount, phase \in Phases, sky \in Skies :
            args = [fn |-> "get_satellites", amount |-> amount, phase |-> phase,
                    sky |-> sky]

GetSatellites ==
    /\ args.fn = "get_satellites"
    /\ ~returned
    /\ returned' = TRUE
    /\ sats' = get_satellites(args.amount, args.phase, args.sky)
    /\ UNCHANGED <<args, crate_draws, line_draws>>
    /\ UNCHANGED parser_vars

SpecSatellites == SatellitesInit /\ [][GetSatellites]_vars

\* a call of draw_tree on the root of a tree
DrawInit ==
    /\ IdleParser
    /\ NothingReturned
    /\ \E t \in Trees, phase \in {Rat(0, 1), Rat(1, 2)}, sky \in {Rat(4, 1), Rat(1, 1)},
          active \in SUBSET {"n1", "n2"}, completed \in SUBSET {"n2", "n3"},
          transition \in 0..TransitionSteps :
            args = [fn |-> "draw_tree", tree |-> t, phase |-> phase, sky |-> sky,
                    phase_accum |-> Rat(0, 1), color |-> t[1].color,
                    completed |-> completed, active |-> active,
                    transition |-> transition]

\* a call of draw_tree on a single crate, of any colour
BlendInit ==
    /\ IdleParser
    /\ NothingReturned
    /\ \E r \in Channels, g \in Channels, b \in Channels,
          active \in {{}, {"n1"}}, completed \in {{}, {"n1"}},
          transition \in 0..TransitionSteps :
            args = [fn |-> "draw_tree", tree |-> TreeNodes(1, <<>>),
                    phase |-> Rat(0, 1), sky |-> Rat(4, 1),
                    phase_accum |-> Rat(0, 1), color |-> <<r, g, b>>,
                    completed |-> completed, active |-> active,
                    transition |-> transition]

DrawTree ==
    /\ args.fn = "draw_tree"
    /\ ~returned
    /\ returned' = TRUE
    /\ LET drawn == draw_tree(args.tree, 1, <<>>, <<>>, args.phase, args.sky,
                              args.phase_accum, args.color, args.completed,
                              args.active, args.transition)
       IN  /\ crate_draws' = drawn.crates
           /\ line_draws' = drawn.lines
    /\ UNCHANGED <<args, sats>>
    /\ UNCHANGED parser_vars

SpecDraw == DrawInit /\ [][DrawTree]_vars

SpecBlend == BlendInit /\ [][DrawTree]_vars

OffsetPositiveFirst(i) == IF i % 2 = 1 THEN (i + 1) \div 2 ELSE -(i \div 2)

(***************************************************************************)
(* C6 (as stated): the i-th satellite is at phase + off(i) * (sky/amount), *)
(* off(i) of magnitude ceil(i/2), positive for i = 1, negative for i = 2,  *)
(* and so on alternating.                                                  *)
(***************************************************************************)
C6_PositiveFirst ==
    (returned /\ args.fn = "get_satellites" /\ args.amount >= 1)
    => /\ Len(sats) = args.amount
       /\ \A i \in 0..(args.amount - 1) :
            sats[i + 1] = RatAdd(args.phase,
                                 Rat(args.sky.num * OffsetPositiveFirst(i),
                                     args.sky.den * args.amount))

OffsetNegativeFirst(i) == IF i % 2 = 1 THEN -((i + 1) \div 2) ELSE i \div 2

(***************************************************************************)
(* C6 (amended): the i-th satellite is at phase + off(i) * (sky/amount),   *)
(* off(i) of magnitude ceil(i/2), negative for odd i and positive for even *)
(* i: off(0) = 0, off(1) = -1, off(2) = +1, off(3) = -2, off(4) = +2.      *)
(***************************************************************************)
C6_NegativeFirst ==
    (returned /\ args.fn = "get_satellites" /\ args.amount >= 1)
    => /\ Len(sats) = args.amount
       /\ \A i \in 0..(args.amount - 1) :
            sats[i + 1] = RatAdd(args.phase,
                                 Rat(args.sky.num * OffsetNegativeFirst(i),
                                     args.sky.den * args.amount))

\* five satellites: one step below the phase, then one above, then two below
C6_Witness ==
    /\ returned
    /\ args.fn = "get_satellites"
    /\ args.amount = 5
    /\ args.phase = Rat(0, 1)
    /\ args.sky = Rat(1, 1)
    /\ sats = <<Rat(0, 1), Rat(-1, 5), Rat(1, 5), Rat(-2, 5), Rat(2, 5)>>

(***************************************************************************)
(* C7: the colour of an active crate is its base colour at transition 0    *)
(* and the highlight colour (0x98, 0xFB, 0x98) at transition 1, whatever   *)
(* the base colour.                                                        *)
(***************************************************************************)
C7_BlendEndpoints ==
    (returned /\ args.fn = "draw_tree" /\ args.tree[1].name \in args.active)
    => /\ args.transition = 0 => crate_draws[1].color = args.color
       /\ args.transition = TransitionSteps => crate_draws[1].color = ActiveColor

RECURSIVE PreOrder(_, _)
RECURSIVE PreOrderOfChildren(_, _, _)

PreOrderOfChildren(t, n, k) ==
    IF k = 0 THEN <<>>
    ELSE PreOrderOfChildren(t, n, k - 1) \o PreOrder(t, t[n].children[k])

PreOrder(t, n) == <<n>> \o PreOrderOfChildren(t, n, Len(t[n].children))

(***************************************************************************)
(* C8: draw_tree returns one DrawCrate per visited node, in depth-first    *)
(* pre-order, and one DrawLine per visited edge, from the parent's crate   *)
(* to the child's: one line less than crates, none for a node without      *)
(* children.                                                               *)
(***************************************************************************)
C8_OutputShape ==
    (returned /\ args.fn = "draw_tree")
    => /\ [i \in 1..Len(crate_draws) |-> crate_draws[i].tree] = PreOrder(args.tree, 1)
       /\ \A i \in 1..Len(crate_draws) :
            crate_draws[i].name = args.tree[crate_draws[i].tree].name
       /\ Len(line_draws) = Len(crate_draws) - 1
       /\ \A k \in 1..Len(line_draws) :
            /\ line_draws[k].p2.from = crate_draws[k + 1].center
            /\ \E j \in 1..k :
                /\ line_draws[k].p1.from = crate_draws[j].center
                /\ \E c \in 1..Len(args.tree[crate_draws[j].tree].children) :
                    args.tree[crate_draws[j].tree].children[c] = crate_draws[k + 1].tree
       /\ \A i, j \in 1..Len(crate_draws) :
            crate_draws[i].center = crate_draws[j].center => i = j
       /\ Len(args.tree[1].children) = 0 => (Len(crate_draws) = 1 /\ line_draws = <<>>)

\* a root with two children, the first of them with a child of its own
C8_Witness ==
    /\ returned
    /\ args.fn = "draw_tree"
    /\ Len(args.tree[1].children) = 2
    /\ Len(args.tree[args.tree[1].children[1]].children) = 1
    /\ Len(crate_draws) = 4
    /\ Len(line_draws) = 3

====
